---- MODULE Spec2Model ----
(***************************************************************************)
(* DecoderEvaluator (scanner/evaluators/video/decoder_evaluator.cpp):      *)
(* the engine that drives a video decoder packet by packet and keeps the   *)
(* frames a sampling descriptor asks for.  One engine instance, its        *)
(* decoder, and the sequence of configure / reset / evaluate calls the     *)
(* pipeline makes on it.                                                   *)
(***************************************************************************)
EXTENDS Integers, Sequences, FiniteSets, TLC

\* ---------------------------------------------------------------- bounds
MaxFrame == 3        \* interval ends range over 0..MaxFrame
MaxWarmup == 1       \* warmup_count ranges over 0..MaxWarmup
MaxPoints == 2       \* a Gather descriptor carries at most MaxPoints points
MaxPackets == 3      \* a packet buffer holds at most MaxPackets records
MaxUnits == 2        \* an evaluate call carries at most MaxUnits input units
MaxLatency == 2      \* frames a decoder may hold back until it is flushed
PlanMaxEnd == 20     \* interval ends of the plan-only specification
PlanMaxWarmup == 2   \* warmup_count of the plan-only specification

Starts == 0..1        \* interval starts
Strides == 0..2       \* strides
Points == 0..2        \* gather points
Keyframes == 0..1     \* start_keyframe
PacketSizes == 0..1   \* payload length of a record: empty or not

\* sizeof(i32): the length header of a packet record
HeaderSize == 4

VARIABLES
  pc,                    \* position of the engine: idle, or a place in evaluate
  op,                    \* the operation entered last
  needs_warmup_,         \* DecoderEvaluator::needs_warmup_
  discontinuity_,        \* DecoderEvaluator::discontinuity_
  metadata_,             \* DecoderEvaluator::metadata_ (<<width, height>>)
  frame_size_,           \* DecoderEvaluator::frame_size_
  configured,            \* configure() has been called (required before evaluate)
  latency,               \* decoder: frames held back until a flush
  discard_ret,           \* decoder: what discard_frame() reports
  held,                  \* decoder: frames fed but not yet emitted
  dqueue,                \* decoder: emitted frames not yet taken (emission ordinals)
  emitted,               \* decoder: frames emitted during the current unit
  num_inputs,            \* evaluate: number of input units
  i,                     \* evaluate: index of the current unit
  args,                  \* evaluate: DecodeArgs of the current unit
  encoded_buffer,        \* evaluate: the bytes of the packet buffer
  packets,               \* evaluate: payload lengths of the records read so far
  buffer_end,            \* evaluate: the packet buffer ends after those records
  valid_frames,          \* evaluate: the plan of the current unit
  encoded_buffer_offset, \* evaluate: byte offset into the packet buffer
  current_frame,
  valid_index,
  encoded_packet_size,
  more_frames,
  total_frames_decoded,
  total_frames_used,
  output,                \* output_buffers[0]: <<frame index, emission ordinal>>
  hist                   \* observations of the run (not program state)

vars == <<pc, op, needs_warmup_, discontinuity_, metadata_, frame_size_,
          configured, latency, discard_ret, held, dqueue, emitted,
          num_inputs, i, args, encoded_buffer, packets, buffer_end, valid_frames,
          encoded_buffer_offset, current_frame, valid_index,
          encoded_packet_size, more_frames, total_frames_decoded,
          total_frames_used, output, hist>>

engineVars == <<needs_warmup_, discontinuity_, metadata_, frame_size_, configured>>
buildVars == <<latency, discard_ret>>
decoderVars == <<held, dqueue, emitted>>
unitVars == <<args, encoded_buffer, packets, buffer_end, valid_frames,
              encoded_buffer_offset,
              current_frame, valid_index, encoded_packet_size, more_frames>>
callVars == <<num_inputs, i, total_frames_decoded, total_frames_used, output>>

\* ------------------------------------------------------------ inputs
SeqsUpTo(S, n) == UNION {[1..k -> S] : k \in 0..n}

MkArgs(t, s, e, st, w, pts, nseq, k) ==
  [sampling |-> t, start |-> s, end |-> e, stride |-> st, warmup_count |-> w,
   gather_points |-> pts, gather_sequences_size |-> nseq, start_keyframe |-> k]

NoArgs == MkArgs("All", 0, 0, 1, 0, <<>>, 0, 0)

\* The descriptors an evaluate call may carry.  Fields a sampling mode does
\* not read are fixed.  For SequenceGather, (start, end) is gather_sequences(0).
ArgsSet ==
  {MkArgs("All", s, e, 1, w, <<>>, 0, k) :
     s \in Starts, e \in 0..MaxFrame, w \in 0..MaxWarmup, k \in Keyframes}
  \cup
  {MkArgs("Strided", s, e, st, w, <<>>, 0, k) :
     s \in Starts, e \in 0..MaxFrame, st \in Strides,
     w \in 0..MaxWarmup, k \in Keyframes}
  \cup
  {MkArgs("Gather", 0, 0, 1, w, pts, 0, k) :
     pts \in SeqsUpTo(Points, MaxPoints), w \in 0..MaxWarmup, k \in Keyframes}
  \cup
  {MkArgs("SequenceGather", s, e, 1, w, <<>>, 1, k) :
     s \in Starts, e \in 0..MaxFrame, w \in 0..MaxWarmup, k \in Keyframes}
  \cup
  {MkArgs("SequenceGather", 0, MaxFrame, 1, 0, <<>>, n, 0) : n \in {0, 2}}
  \cup
  {MkArgs("Unknown", 0, 0, 1, 0, <<>>, 0, 0)}

\* The descriptors of the units of a call that carries several units.
MultiArgsSet ==
  {a \in ArgsSet :
     /\ a.start = 0
     /\ a.start_keyframe = 0
     /\ a.sampling \in {"All", "SequenceGather"} => a.end <= 1
     /\ a.sampling = "Strided" => a.end = 2 /\ a.stride = 2
     /\ a.sampling = "Gather" =>
          /\ Len(a.gather_points) <= 1
          /\ \A k \in 1..Len(a.gather_points) : a.gather_points[k] <= 1}

UnitArgs(n) == IF n = 1 THEN ArgsSet ELSE MultiArgsSet

Metadatas == {<<2, 1>>}

\* the bytes of one record: the i32 length, low byte first, then the payload
RecordBytes(n) ==
  [k \in 1..HeaderSize |-> IF k = 1 THEN n ELSE 0] \o [k \in 1..n |-> 255]

\* the bytes of the buffer that is the concatenation of the records pk
RECURSIVE BufferOf(_)
BufferOf(pk) ==
  IF pk = <<>> THEN <<>> ELSE RecordBytes(Head(pk)) \o BufferOf(Tail(pk))

\* the byte at offset k of buf; a well-formed buffer is never read past its
\* end (PacketBoundsBeforeRead)
ByteAt(buf, k) == IF k < Len(buf) THEN buf[k + 1] ELSE 0

\* line 146: *reinterpret_cast<i32*>(encoded_buffer + offset)
ReadI32(buf, off) ==
  ByteAt(buf, off) + 256 * ByteAt(buf, off + 1)
    + 65536 * ByteAt(buf, off + 2) + 16777216 * ByteAt(buf, off + 3)

\* ReadPacket with <= for < in the test of line 144
ReadPacketPastEnd(buf, off) ==
  IF off <= Len(buf)
    THEN [has |-> TRUE, size |-> ReadI32(buf, off),
          offset |-> off + HeaderSize + ReadI32(buf, off)]
    ELSE [has |-> FALSE, size |-> 0, offset |-> off]

\* lines 141-150: the packet of one pass of the decode loop: the record at
\* off when off is inside the buffer, the flush packet (size 0) otherwise
ReadPacket(buf, off) ==
  IF off < Len(buf)
    THEN [has |-> TRUE, size |-> ReadI32(buf, off),
          offset |-> off + HeaderSize + ReadI32(buf, off)]
    ELSE [has |-> FALSE, size |-> 0, offset |-> off]

\* encoded_buffer_size of a buffer made of the records pk
RECURSIVE BufferBytes(_)
BufferBytes(pk) ==
  IF pk = <<>> THEN 0 ELSE HeaderSize + Head(pk) + BufferBytes(Tail(pk))

\* ------------------------------------------------------- sampling plan
\* WarmupSkip with the needs_warmup_ test lost: the skip is always applied
WarmupSkipAlways(nw, w) == w

\* lines 93-95, 104-106, 112-114, 123-125: the leading indices skipped
\* when the engine is already warm.
WarmupSkip(nw, w) == IF nw THEN 0 ELSE w

\* lines 96-98, 107-109, 126-128: for (; s < e; s += step) push_back(s)
RECURSIVE PushRange(_, _, _)
PushRange(s, e, step) ==
  IF s < e THEN <<s>> \o PushRange(s + step, e, step) ELSE <<>>

\* PushPoints with the start position lost: every point is copied
PushPointsAll(pts, s) == pts

\* lines 115-117: for (; s < gather_points_size(); ++s) push_back(gather_points(s))
RECURSIVE PushPoints(_, _)
PushPoints(pts, s) ==
  IF s < Len(pts) THEN <<pts[s + 1]>> \o PushPoints(pts, s + 1) ELSE <<>>

\* line 107: the Strided loop never leaves when stride <= 0 and start < end
PlanDiverges(a, nw) ==
  /\ a.sampling = "Strided"
  /\ a.stride <= 0
  /\ a.start + WarmupSkip(nw, a.warmup_count * a.stride) < a.end

\* lines 89-132: valid_frames of a descriptor
SamplingPlan(a, nw) ==
  CASE a.sampling = "All" ->
         PushRange(a.start + WarmupSkip(nw, a.warmup_count), a.end, 1)
    [] a.sampling = "Strided" ->
         PushRange(a.start + WarmupSkip(nw, a.warmup_count * a.stride),
                   a.end, a.stride)
    [] a.sampling = "Gather" ->
         PushPoints(a.gather_points, WarmupSkip(nw, a.warmup_count))
    [] a.sampling = "SequenceGather" ->
         PushRange(a.start + WarmupSkip(nw, a.warmup_count), a.end, 1)
    [] OTHER -> <<>>

\* ForcesDiscontinuity with the store of line 129 lost
ForcesDiscontinuityGatherOnly(t) == t = "Gather"

\* lines 118, 129: the modes that set discontinuity_ before the decode loop
ForcesDiscontinuity(t) == t \in {"Gather", "SequenceGather"}

\* PlanAssertFails with the assert of line 120 lost
PlanAssertUnknownOnly(a) == a.sampling = "Unknown"

\* lines 120, 131: the asserts of the plan construction
PlanAssertFails(a) ==
  \/ a.sampling = "Unknown"
  \/ a.sampling = "SequenceGather" /\ a.gather_sequences_size # 1

\* LoopCond leaving one frame early
LoopCondShort(vi, total) == vi + 1 < total

\* line 139, 155: while (valid_index < total_output_frames)
LoopCond(vi, total) == vi < total

\* IsValidFrame with >= for ==
IsValidFrameFrom(cf, vf, vi) == cf >= vf[vi + 1]

\* line 156: current_frame == valid_frames[valid_index]
IsValidFrame(cf, vf, vi) == cf = vf[vi + 1]

\* NextDiscontinuity with the test inverted
NextDiscontinuityInverted(size) == size # 0

\* NextDiscontinuity with the flag never raised
NextDiscontinuityNever(size) == FALSE

\* line 173: discontinuity_ = (encoded_packet_size == 0)
NextDiscontinuity(size) == size = 0

\* WarmedUp with the store lost
WarmedUpKeep(nw) == nw

\* WarmedUp as a toggle of the flag
WarmedUpToggle(nw) == ~nw

\* line 189: needs_warmup_ = false
WarmedUp(nw) == FALSE

\* InitNeedsWarmup as a constructor that starts cold
InitNeedsWarmupTrue == TRUE

\* lines 30-31: the constructor's initial flags
InitNeedsWarmup == FALSE
InitDiscontinuity == FALSE

\* ResetFlags with the store to discontinuity_ lost
ResetFlagsWarmupOnly == [needs_warmup |-> TRUE, discontinuity |-> FALSE]

\* lines 44-45: the flags reset() stores
ResetFlags == [needs_warmup |-> TRUE, discontinuity |-> TRUE]

\* ConfigureDiscontinuity as a configure() that sets the flag
ConfigureSetsDiscontinuity(d) == TRUE

\* lines 37-41: configure() does not store to discontinuity_
ConfigureDiscontinuity(d) == d

\* CopiesAfterWait with the call of line 176 lost
CopiesAfterNoWait(c) == c

\* line 176: decoder_->wait_until_frames_copied(): whether a frame copy is
\* still in flight afterwards, given whether one was before
CopiesAfterWait(c) == FALSE

\* line 39: frame_size_ = width * height * 3
FrameSize(m) == m[1] * m[2] * 3

\* ------------------------------------------------------------ decoder
\* feed(packet, size, discontinuity): a discontinuity resets the decoder's
\* prediction state (frames in flight are dropped); a non-empty packet
\* carries one frame, emitted once more than latency frames are held; the
\* empty packet flushes every held frame.  Reports whether frames are
\* available.
DecoderFeed(h, q, em, size, disc, lat) ==
  LET h0 == IF disc THEN 0 ELSE h
      h1 == IF size = 0 THEN 0
            ELSE IF h0 + 1 > lat THEN h0 ELSE h0 + 1
      n  == IF size = 0 THEN h0
            ELSE IF h0 + 1 > lat THEN 1 ELSE 0
      q1 == q \o [k \in 1..n |-> em + k - 1]
  IN [held |-> h1, dqueue |-> q1, emitted |-> em + n, ret |-> Len(q1) > 0]

\* get_frame(buffer, size): copies the next frame out (ordinal -1: no frame
\* was there); reports whether more frames are pending.
DecoderGetFrame(q) ==
  IF q = <<>> THEN [dqueue |-> q, frame |-> -1, ret |-> FALSE]
  ELSE [dqueue |-> Tail(q), frame |-> Head(q), ret |-> Len(q) > 1]

\* discard_frame(): drops the next frame.  The interface documents the
\* result as "had a frame"; the engine's loops read it as "more frames are
\* pending" (line 165).  discard_ret fixes which of the two the decoder does.
DecoderDiscardFrame(q, mode) ==
  IF q = <<>> THEN [dqueue |-> q, ret |-> FALSE]
  ELSE [dqueue |-> Tail(q),
        ret |-> IF mode = "had_frame" THEN TRUE ELSE Len(q) > 1]

\* configure(metadata) of the decoder: a fresh codec state
DecoderConfigure(h) == 0

\* --------------------------------------------------------- observations
NoHist ==
  [after_reset |-> FALSE,    \* reset() was called and no unit has begun since
   reset_called |-> FALSE,   \* reset() was called since construction
   cfg_disc |-> FALSE,       \* discontinuity_ just before the configure() made last
   plan_total |-> 0,         \* sum of |valid_frames| over the units of the call
   entry_warmup |-> FALSE,   \* needs_warmup_ when the current unit began
   entry_disc |-> FALSE,     \* discontinuity_ when the current unit began
   unit_after_reset |-> FALSE, \* the current unit is the first since reset()
   fed_unit |-> FALSE,       \* a packet was fed in the unit begun last
   first_disc |-> FALSE,     \* discontinuity argument of the unit's first feed
   fed_call |-> FALSE,       \* a packet was fed in the current call
   last_size |-> 0,          \* size of the packet fed last in the call
   last_disc |-> FALSE,      \* discontinuity argument of the feed made last
   out_base |-> 0,           \* Len(output) when the current unit began
   call_warmup |-> FALSE,    \* needs_warmup_ when the current call began
   call_disc |-> FALSE,      \* discontinuity_ when the current call began
   emit_total |-> 0,         \* frames the decoder emitted in the ended units of the call
   flushed |-> FALSE,        \* the flush packet was fed in the current unit
   flushed_again |-> FALSE,  \* the flush packet was fed more than once in the unit
   uncopied |-> FALSE,       \* get_frame was called and no wait_until_frames_copied since
   call_waited |-> FALSE,    \* wait_until_frames_copied was called in the current call
   get_after_wait |-> FALSE, \* get_frame was called after a wait of the same call
   prev_zero |-> FALSE,      \* the packet fed before the one fed last was empty
   nonfirst_unit |-> FALSE,  \* the feed made last was not the first of its unit
   nonfirst_call |-> FALSE]  \* the feed made last was not the first of the call

\* ---------------------------------------------------------------- Init
\* lines 24-35: the constructor.  frame_size_ is not initialised.
Init ==
  /\ pc = "idle"
  /\ op = "construct"
  /\ needs_warmup_ = InitNeedsWarmup
  /\ discontinuity_ = InitDiscontinuity
  /\ metadata_ = <<0, 0>>
  /\ frame_size_ \in {0} \cup {FrameSize(m) : m \in Metadatas}
  /\ configured = FALSE
  /\ latency \in 0..MaxLatency
  /\ discard_ret \in {"had_frame", "more_pending"}
  /\ held = 0
  /\ dqueue = <<>>
  /\ emitted = 0
  /\ num_inputs = 0
  /\ i = 0
  /\ args = NoArgs
  /\ encoded_buffer = <<>>
  /\ packets = <<>>
  /\ buffer_end = FALSE
  /\ valid_frames = <<>>
  /\ encoded_buffer_offset = 0
  /\ current_frame = 0
  /\ valid_index = 0
  /\ encoded_packet_size = 0
  /\ more_frames = FALSE
  /\ total_frames_decoded = 0
  /\ total_frames_used = 0
  /\ output = <<>>
  /\ hist = NoHist

\* ------------------------------------------------------------- actions
\* lines 37-41
Configure(m) ==
  /\ pc = "idle"
  /\ op' = "configure"
  /\ metadata_' = m
  /\ frame_size_' = FrameSize(m)
  /\ configured' = TRUE
  /\ discontinuity_' = ConfigureDiscontinuity(discontinuity_)
  /\ held' = DecoderConfigure(held)
  /\ hist' = [hist EXCEPT !.cfg_disc = discontinuity_]
  /\ UNCHANGED <<pc, needs_warmup_, buildVars, dqueue, emitted,
                 unitVars, callVars>>

\* lines 43-46
Reset ==
  /\ pc = "idle"
  /\ op' = "reset"
  /\ needs_warmup_' = ResetFlags.needs_warmup
  /\ discontinuity_' = ResetFlags.discontinuity
  /\ hist' = [hist EXCEPT !.after_reset = TRUE, !.reset_called = TRUE,
                          !.cfg_disc = FALSE]
  /\ UNCHANGED <<pc, metadata_, frame_size_, configured, buildVars, decoderVars,
                 unitVars, callVars>>

\* lines 53-57: entry of evaluate with n input units
Evaluate(n) ==
  /\ pc = "idle"
  /\ configured
  /\ op' = "evaluate"
  /\ pc' = "unit"
  /\ num_inputs' = n
  /\ i' = 0
  /\ total_frames_decoded' = 0
  /\ total_frames_used' = 0
  /\ output' = <<>>
  /\ hist' = [hist EXCEPT !.cfg_disc = FALSE,
                          !.call_warmup = needs_warmup_,
                          !.call_disc = discontinuity_]
  /\ UNCHANGED <<engineVars, buildVars, decoderVars, unitVars>>

\* lines 58-137: one pass of the for loop up to the decode loop, for a unit
\* whose descriptor is a
BeginUnit(a) ==
  /\ pc = "unit"
  /\ i < num_inputs
  /\ args' = a
  /\ IF PlanAssertFails(a)
       THEN /\ pc' = "failed"
            /\ valid_frames' = <<>>
            /\ UNCHANGED discontinuity_
            /\ hist' = [hist EXCEPT
                 !.entry_warmup = needs_warmup_,
                 !.entry_disc = discontinuity_,
                 !.fed_unit = FALSE,
                 !.out_base = Len(output)]
       ELSE IF PlanDiverges(a, needs_warmup_)
       THEN /\ pc' = "planhang"
            /\ valid_frames' = <<>>
            /\ UNCHANGED <<discontinuity_, hist>>
       ELSE /\ pc' = "loop"
            /\ valid_frames' = SamplingPlan(a, needs_warmup_)
            /\ discontinuity_' =
                 IF ForcesDiscontinuity(a.sampling) THEN TRUE ELSE discontinuity_
            /\ hist' = [hist EXCEPT
                 !.plan_total = @ + Len(SamplingPlan(a, needs_warmup_)),
                 !.entry_warmup = needs_warmup_,
                 !.entry_disc = discontinuity_,
                 !.unit_after_reset = hist.after_reset,
                 !.after_reset = FALSE,
                 !.fed_unit = FALSE,
                 !.first_disc = FALSE,
                 !.out_base = Len(output)]
  /\ encoded_buffer' = <<>>
  /\ packets' = <<>>
  /\ buffer_end' = FALSE
  /\ encoded_buffer_offset' = 0
  /\ current_frame' = a.start_keyframe
  /\ valid_index' = 0
  /\ encoded_packet_size' = 0
  /\ more_frames' = FALSE
  /\ emitted' = 0
  /\ UNCHANGED <<op, needs_warmup_, metadata_, frame_size_, configured,
                 buildVars, held, dqueue, callVars>>

\* lines 139-154, 170-173: one pass of the decode loop up to the drain: read
\* the next record (or the flush packet) and feed it.  The packet buffer is
\* an input that may be drawn record by record as the loop reads it: more
\* tells that a record of payload length size follows the bytes known so far.
FeedPacket(more, size) ==
  /\ pc = "loop"
  /\ LoopCond(valid_index, Len(valid_frames))
  /\ more => ~buffer_end /\ Len(packets) < MaxPackets
  /\ ~more => size = 0
  /\ LET buf == IF more THEN encoded_buffer \o RecordBytes(size)
                ELSE encoded_buffer
         r   == ReadPacket(buf, encoded_buffer_offset)
         has == r.has
         d   == DecoderFeed(held, dqueue, emitted, r.size, discontinuity_, latency)
     IN /\ encoded_buffer' = buf
        /\ encoded_packet_size' = r.size
        /\ encoded_buffer_offset' = r.offset
        /\ packets' = IF has THEN Append(packets, r.size) ELSE packets
        /\ buffer_end' = ~has
        /\ held' = d.held
        /\ dqueue' = d.dqueue
        /\ emitted' = d.emitted
        /\ hist' = [hist EXCEPT
             !.first_disc = IF hist.fed_unit THEN @ ELSE discontinuity_,
             !.prev_zero = (hist.fed_call /\ hist.last_size = 0),
             !.nonfirst_unit = hist.fed_unit,
             !.nonfirst_call = hist.fed_call,
             !.flushed = @ \/ ~has,
             !.flushed_again = @ \/ (~has /\ hist.flushed),
             !.fed_unit = TRUE,
             !.fed_call = TRUE,
             !.last_size = r.size,
             !.last_disc = discontinuity_]
        /\ IF d.ret
             THEN /\ pc' = "drain"
                  /\ more_frames' = TRUE
                  /\ UNCHANGED discontinuity_
             ELSE /\ pc' = "loop"
                  /\ discontinuity_' = NextDiscontinuity(r.size)
                  /\ UNCHANGED more_frames
  /\ UNCHANGED <<op, needs_warmup_, metadata_, frame_size_, configured, buildVars,
                 args, valid_frames, current_frame, valid_index, callVars>>

\* lines 155-169: one pass of the drain loop
DrainStep ==
  /\ pc = "drain"
  /\ more_frames /\ LoopCond(valid_index, Len(valid_frames))
  /\ IF IsValidFrame(current_frame, valid_frames, valid_index)
       THEN LET g == DecoderGetFrame(dqueue)
            IN /\ more_frames' = g.ret
               /\ dqueue' = g.dqueue
               /\ output' = Append(output, <<current_frame, g.frame>>)
               /\ valid_index' = valid_index + 1
               /\ total_frames_used' = total_frames_used + 1
               /\ hist' = [hist EXCEPT
                    !.uncopied = TRUE,
                    !.get_after_wait = @ \/ hist.call_waited]
       ELSE LET g == DecoderDiscardFrame(dqueue, discard_ret)
            IN /\ more_frames' = g.ret
               /\ dqueue' = g.dqueue
               /\ UNCHANGED <<output, valid_index, total_frames_used, hist>>
  /\ current_frame' = current_frame + 1
  /\ total_frames_decoded' = total_frames_decoded + 1
  /\ UNCHANGED <<pc, op, engineVars, buildVars, held, emitted, num_inputs, i,
                 args, encoded_buffer, packets, buffer_end, valid_frames,
                 encoded_buffer_offset, encoded_packet_size>>

\* lines 155, 170-174: the drain loop ends; the flag for the next feed is set
DrainExit ==
  /\ pc = "drain"
  /\ ~(more_frames /\ LoopCond(valid_index, Len(valid_frames)))
  /\ pc' = "loop"
  /\ discontinuity_' = NextDiscontinuity(encoded_packet_size)
  /\ UNCHANGED <<op, needs_warmup_, metadata_, frame_size_, configured, buildVars,
                 decoderVars, unitVars, callVars, hist>>

\* lines 139, 175-178: the decode loop ends; wait_until_frames_copied()
WaitCopies ==
  /\ pc = "loop"
  /\ ~LoopCond(valid_index, Len(valid_frames))
  /\ pc' = IF Len(dqueue) > 0 THEN "discard" ELSE "endunit"
  /\ hist' = [hist EXCEPT !.uncopied = CopiesAfterWait(@),
                          !.call_waited = TRUE]
  /\ UNCHANGED <<op, engineVars, buildVars, decoderVars, unitVars, callVars>>

\* lines 179-181: while (decoder_->discard_frame()) total_frames_decoded++
DiscardLeftover ==
  /\ pc = "discard"
  /\ LET g == DecoderDiscardFrame(dqueue, discard_ret)
     IN /\ dqueue' = g.dqueue
        /\ IF g.ret
             THEN /\ total_frames_decoded' = total_frames_decoded + 1
                  /\ UNCHANGED pc
             ELSE /\ pc' = "endunit"
                  /\ UNCHANGED total_frames_decoded
  /\ UNCHANGED <<op, engineVars, buildVars, held, emitted, unitVars, num_inputs,
                 i, total_frames_used, output, hist>>

\* lines 184-190, 58: the unit ends: needs_warmup_ = false, ++i; the locals
\* of the pass go out of scope
EndUnit ==
  /\ pc = "endunit"
  /\ needs_warmup_' = WarmedUp(needs_warmup_)
  /\ i' = i + 1
  /\ pc' = "unit"
  /\ args' = NoArgs
  /\ encoded_buffer' = <<>>
  /\ packets' = <<>>
  /\ buffer_end' = FALSE
  /\ valid_frames' = <<>>
  /\ encoded_buffer_offset' = 0
  /\ current_frame' = 0
  /\ valid_index' = 0
  /\ encoded_packet_size' = 0
  /\ more_frames' = FALSE
  /\ emitted' = 0
  /\ hist' = [hist EXCEPT !.entry_warmup = FALSE, !.entry_disc = FALSE,
                          !.unit_after_reset = FALSE, !.first_disc = FALSE,
                          !.last_disc = FALSE, !.out_base = 0,
                          !.emit_total = @ + emitted,
                          !.flushed = FALSE, !.flushed_again = FALSE,
                          !.prev_zero = FALSE, !.nonfirst_unit = FALSE,
                          !.nonfirst_call = FALSE]
  /\ UNCHANGED <<op, discontinuity_, metadata_, frame_size_, configured,
                 buildVars, held, dqueue, num_inputs,
                 total_frames_decoded, total_frames_used, output>>

\* line 58: the for loop ends; evaluate is about to return
FinishUnits ==
  /\ pc = "unit"
  /\ ~(i < num_inputs)
  /\ pc' = "ret"
  /\ UNCHANGED <<op, engineVars, buildVars, decoderVars, unitVars, callVars, hist>>

\* lines 192-197: the counters go to the profiler; evaluate returns
Return ==
  /\ pc = "ret"
  /\ pc' = "idle"
  /\ num_inputs' = 0
  /\ i' = 0
  /\ total_frames_decoded' = 0
  /\ total_frames_used' = 0
  /\ output' = <<>>
  /\ hist' = [NoHist EXCEPT !.after_reset = hist.after_reset,
                            !.reset_called = hist.reset_called]
  /\ UNCHANGED <<op, engineVars, buildVars, decoderVars, unitVars>>

Next ==
  \/ \E m \in Metadatas : Configure(m)
  \/ Reset
  \/ \E n \in 0..MaxUnits : Evaluate(n)
  \/ \E a \in UnitArgs(num_inputs) : BeginUnit(a)
  \/ \E more \in BOOLEAN, size \in PacketSizes : FeedPacket(more, size)
  \/ DrainStep
  \/ DrainExit
  \/ WaitCopies
  \/ DiscardLeftover
  \/ EndUnit
  \/ FinishUnits
  \/ Return

Spec == Init /\ [][Next]_vars

\* ------------------------------------------- the plan-only specification
\* The descriptors of the plan-only specification: wider intervals, no
\* decode loop.
PlanArgsSet ==
  {MkArgs(t, s, e, 1, w, <<>>, IF t = "All" THEN 0 ELSE 1, 0) :
     t \in {"All", "SequenceGather"}, s \in Starts, e \in 0..PlanMaxEnd,
     w \in 0..PlanMaxWarmup}
  \cup
  {MkArgs("Strided", s, e, st, w, <<>>, 0, 0) :
     s \in Starts, e \in 0..PlanMaxEnd, st \in 1..4, w \in 0..PlanMaxWarmup}
  \cup
  {MkArgs("Gather", 0, 0, 1, w, pts, 0, 0) :
     pts \in SeqsUpTo(Points, MaxPoints + 1), w \in 0..PlanMaxWarmup}

\* evaluate has been entered with one unit on a configured engine
PlanInit ==
  /\ pc = "unit"
  /\ op = "evaluate"
  /\ \E f \in {<<InitNeedsWarmup, InitDiscontinuity>>,
                <<ResetFlags.needs_warmup, ResetFlags.discontinuity>>,
                <<FALSE, TRUE>>, <<FALSE, FALSE>>} :
       needs_warmup_ = f[1] /\ discontinuity_ = f[2]
  /\ metadata_ = <<2, 1>>
  /\ frame_size_ = FrameSize(<<2, 1>>)
  /\ configured = TRUE
  /\ latency = 0
  /\ discard_ret = "more_pending"
  /\ held = 0
  /\ dqueue = <<>>
  /\ emitted = 0
  /\ num_inputs = 1
  /\ i = 0
  /\ args = NoArgs
  /\ encoded_buffer = <<>>
  /\ packets = <<>>
  /\ buffer_end = FALSE
  /\ valid_frames = <<>>
  /\ encoded_buffer_offset = 0
  /\ current_frame = 0
  /\ valid_index = 0
  /\ encoded_packet_size = 0
  /\ more_frames = FALSE
  /\ total_frames_decoded = 0
  /\ total_frames_used = 0
  /\ output = <<>>
  /\ hist = [NoHist EXCEPT !.after_reset = needs_warmup_,
                           !.reset_called = needs_warmup_]

PlanNext == \E a \in PlanArgsSet : BeginUnit(a)

PlanSpec == PlanInit /\ [][PlanNext]_vars

\* ---------------------------------------- the packet-buffer specification
\* The payload lengths of the records of the packet-buffer specification.
BufSizes == 0..2

\* The descriptor of the packet-buffer specification: a plan that outlasts
\* every buffer, so that each buffer is read to its end.
BufArgs == MkArgs("All", 0, MaxPackets + 1, 1, 0, <<>>, 0, 0)

\* evaluate has reached the decode loop of its only unit, after reset(), with
\* a packet buffer that is a concatenation of up to MaxPackets records
BufInit ==
  /\ pc = "loop"
  /\ op = "evaluate"
  /\ needs_warmup_ = ResetFlags.needs_warmup
  /\ discontinuity_ = ResetFlags.discontinuity
  /\ metadata_ = <<2, 1>>
  /\ frame_size_ = FrameSize(<<2, 1>>)
  /\ configured = TRUE
  /\ latency \in 0..1
  /\ discard_ret = "more_pending"
  /\ held = 0
  /\ dqueue = <<>>
  /\ emitted = 0
  /\ num_inputs = 1
  /\ i = 0
  /\ args = BufArgs
  /\ encoded_buffer \in {BufferOf(pk) : pk \in SeqsUpTo(BufSizes, MaxPackets)}
  /\ packets = <<>>
  /\ buffer_end = FALSE
  /\ valid_frames = SamplingPlan(BufArgs, ResetFlags.needs_warmup)
  /\ encoded_buffer_offset = 0
  /\ current_frame = 0
  /\ valid_index = 0
  /\ encoded_packet_size = 0
  /\ more_frames = FALSE
  /\ total_frames_decoded = 0
  /\ total_frames_used = 0
  /\ output = <<>>
  /\ hist = [NoHist EXCEPT !.reset_called = TRUE,
                           !.unit_after_reset = TRUE,
                           !.plan_total = MaxPackets + 1,
                           !.entry_warmup = ResetFlags.needs_warmup,
                           !.entry_disc = ResetFlags.discontinuity,
                           !.call_warmup = ResetFlags.needs_warmup,
                           !.call_disc = ResetFlags.discontinuity]

BufNext ==
  \/ FeedPacket(FALSE, 0)
  \/ DrainStep
  \/ DrainExit

BufSpec == BufInit /\ [][BufNext]_vars

\* ------------------------------------------------------------- claims
\* the current unit's plan has been computed and the unit has not ended
InUnit == pc \in {"loop", "drain", "discard", "endunit"}

StrictlyIncreasing(s) == \A k \in 1..(Len(s) - 1) : s[k] < s[k + 1]

\* the integers of [a, b) in increasing order
Interval(a, b) == [k \in 1..(IF b > a THEN b - a ELSE 0) |-> a + k - 1]

\* the buffers the current unit has appended to the output channel
UnitOutput == SubSeq(output, hist.out_base + 1, Len(output))

\* the frame indices materialized so far are the first valid_index entries
\* of the plan, in the plan's order
MaterializedInOrder ==
  /\ Len(UnitOutput) = valid_index
  /\ \A k \in 1..Len(UnitOutput) : UnitOutput[k][1] = valid_frames[k]

\* C1: when evaluate returns, total_frames_used equals the summed sizes of
\* the plans of its units, exactly that many buffers are on output channel
\* 0, and total_frames_decoded >= total_frames_used.
C1_Conservation ==
  pc = "ret" =>
    /\ total_frames_used = hist.plan_total
    /\ Len(output) = hist.plan_total
    /\ total_frames_decoded >= total_frames_used

C1_Witness ==
  /\ pc = "ret"
  /\ num_inputs = 2
  /\ hist.plan_total >= 2
  /\ total_frames_used = hist.plan_total
  /\ total_frames_decoded > total_frames_used

\* the decoder has been flushed and holds nothing, the buffer is used up,
\* and the plan still asks for a frame
Starved ==
  /\ pc = "loop"
  /\ LoopCond(valid_index, Len(valid_frames))
  /\ buffer_end
  /\ hist.fed_unit /\ hist.last_size = 0
  /\ held = 0
  /\ dqueue = <<>>

\* C2: a plan that asks for a frame the decoder never emits makes the
\* invocation fail; the engine does not go on running.
C2_StarvationFatal == Starved => pc = "failed"

C4_Original == pc = "ret" => ~needs_warmup_

\* C4: needs_warmup is false after an evaluate that returns and had at least
\* one input unit, and it is true only from a reset() until the first unit
\* begun after that reset() ends: evaluate and configure never set it.
C4_WarmupIdempotence ==
  /\ (pc = "ret" /\ num_inputs >= 1) => ~needs_warmup_
  /\ needs_warmup_ => (hist.after_reset \/ hist.unit_after_reset)

C4_Witness ==
  /\ pc = "ret"
  /\ num_inputs = 2
  /\ hist.reset_called
  /\ ~needs_warmup_
  /\ hist.plan_total >= 1

\* C5 as stated: a freshly constructed engine has needs_warmup = true.
C5_Original == op = "construct" => needs_warmup_

\* C5: an engine on which reset() was never called has needs_warmup = false,
\* so its evaluate skips the warmup_count leading indices; needs_warmup is
\* true from a reset() until the first unit begun after it ends, and that
\* unit retains the warmup region.
C5_FreshEngine ==
  /\ needs_warmup_ => hist.reset_called
  /\ hist.after_reset => needs_warmup_
  /\ InUnit =>
       /\ hist.unit_after_reset => needs_warmup_
       /\ hist.entry_warmup = hist.unit_after_reset
       /\ args.sampling = "All" =>
            valid_frames =
              Interval(args.start + (IF hist.unit_after_reset
                                       THEN 0 ELSE args.warmup_count),
                       args.end)

C5_Witness ==
  /\ InUnit
  /\ ~hist.reset_called
  /\ args.sampling = "All"
  /\ args.warmup_count = 1
  /\ args.start = 0
  /\ valid_frames = <<1, 2>>

\* C6: the first packet a Gather or SequenceGather unit feeds is fed with
\* discontinuity = true whatever the flag was before; an All or Strided unit
\* feeds its first packet with the flag it found.
C6_GatherForcesDiscontinuity ==
  InUnit =>
    /\ args.sampling \in {"Gather", "SequenceGather"} =>
         /\ ~hist.fed_unit => discontinuity_
         /\ hist.fed_unit => hist.first_disc
    /\ args.sampling \in {"All", "Strided"} =>
         /\ ~hist.fed_unit => discontinuity_ = hist.entry_disc
         /\ hist.fed_unit => hist.first_disc = hist.entry_disc

C6_Witness ==
  /\ InUnit
  /\ args.sampling = "SequenceGather"
  /\ ~hist.entry_disc
  /\ hist.fed_unit
  /\ hist.first_disc

\* the end-to-end scenario: three packets, All{0,3,0}, one frame per packet
Scenario3 ==
  /\ pc = "endunit"
  /\ num_inputs = 1
  /\ args = MkArgs("All", 0, 3, 1, 0, <<>>, 0, 0)
  /\ latency = 0
  /\ Len(packets) = 3
  /\ \A k \in 1..3 : packets[k] > 0

Scenario3Result ==
  Scenario3 =>
    /\ Len(output) = 3
    /\ total_frames_decoded = 3
    /\ total_frames_used = 3

\* C7 as stated: after an evaluate that fed a packet, discontinuity tells
\* whether the packet fed last was empty.
C7_Original ==
  /\ (pc = "ret" /\ hist.fed_call) => (discontinuity_ = (hist.last_size = 0))
  /\ Scenario3Result

\* C7: after an evaluate whose last unit fed a packet, discontinuity tells
\* whether the packet fed last was empty; the three-packet scenario gives 3
\* buffers, 3 frames decoded and 3 used.
C7_FlagAfterCall ==
  /\ (pc = "ret" /\ hist.fed_unit) => (discontinuity_ = (hist.last_size = 0))
  /\ Scenario3Result

C7_Witness ==
  /\ pc = "ret"
  /\ num_inputs = 2
  /\ hist.fed_unit
  /\ hist.last_size = 0
  /\ discontinuity_
  /\ total_frames_used >= 1

\* C8 as stated: configure() sets the discontinuity flag.
C8_Original == (pc = "idle" /\ op = "configure") => discontinuity_

\* C8: reset() sets the discontinuity flag, configure() leaves it as it was.
C8_ConfigureKeepsFlag ==
  /\ (pc = "idle" /\ op = "configure") => discontinuity_ = hist.cfg_disc
  /\ hist.after_reset => discontinuity_

C8_Witness ==
  /\ pc = "idle"
  /\ op = "configure"
  /\ metadata_ = <<2, 1>>
  /\ ~hist.reset_called
  /\ ~discontinuity_

\* a step of reset()
ResetStep == pc = "idle" /\ pc' = "idle" /\ op' = "reset"

\* C9: reset() sets needs_warmup and discontinuity and changes nothing else;
\* the unit evaluated next keeps the warmup region and feeds its first packet
\* with discontinuity = true.
C9_ResetEffect ==
  [][/\ ResetStep =>
          /\ needs_warmup_' /\ discontinuity_'
          /\ UNCHANGED <<metadata_, frame_size_, configured, latency,
                         discard_ret, held, dqueue, emitted>>
     /\ (InUnit /\ hist.unit_after_reset)' =>
          /\ hist'.entry_warmup /\ hist'.entry_disc
          /\ hist'.fed_unit => hist'.first_disc
          /\ args'.sampling \in {"All", "SequenceGather"} =>
               valid_frames' = Interval(args'.start, args'.end)
          /\ args'.sampling = "Gather" => valid_frames' = args'.gather_points
    ]_vars

C9_Witness ==
  /\ InUnit
  /\ hist.unit_after_reset
  /\ args.sampling = "All"
  /\ args.warmup_count = 1
  /\ args.start = 0
  /\ valid_frames = <<0, 1, 2>>
  /\ hist.fed_unit
  /\ hist.first_disc

\* C10: the plan of an All descriptor, and of a SequenceGather descriptor
\* with its single interval, is the integers of
\* [start + (needs_warmup ? 0 : warmup_count), end) in increasing order.
C10_AllRange ==
  (InUnit /\ args.sampling \in {"All", "SequenceGather"}) =>
    valid_frames =
      Interval(args.start + (IF hist.entry_warmup THEN 0 ELSE args.warmup_count),
               args.end)

C10_Witness ==
  /\ InUnit
  /\ args.sampling = "All"
  /\ args.start = 0 /\ args.end = 10 /\ args.warmup_count = 2
  /\ ~hist.entry_warmup
  /\ valid_frames = <<2, 3, 4, 5, 6, 7, 8, 9>>

\* the arithmetic sequence first, first + step, ... of the values below e
ArithSeq(first, e, step) ==
  [k \in 1..(IF first < e THEN (e - first + step - 1) \div step ELSE 0) |->
     first + (k - 1) * step]

\* the Strided plan in closed form
StridedForm(a, nw) ==
  ArithSeq(a.start + (IF nw THEN 0 ELSE a.warmup_count * a.stride),
           a.end, a.stride)

\* the plan of the current Strided unit is the closed form
StridedPlanExact ==
  (InUnit /\ args.sampling = "Strided") =>
    valid_frames = StridedForm(args, hist.entry_warmup)

\* the example of the Strided plan: {0, 20, 4, warmup_count 1}, warm
StridedExample ==
  /\ InUnit
  /\ args = MkArgs("Strided", 0, 20, 4, 1, <<>>, 0, 0)
  /\ ~hist.entry_warmup
  /\ valid_frames = <<4, 8, 12, 16>>

\* C11: the plan of a Strided descriptor is the arithmetic sequence from
\* start + (needs_warmup ? 0 : warmup_count * stride), step stride, of the
\* values below end, and the construction of the plan ends for every
\* descriptor evaluate is given.
C11_StridedPlan ==
  /\ StridedPlanExact
  /\ pc # "planhang"

\* the elements of s after the first n, in order
DropFirst(s, n) == [k \in 1..(IF Len(s) > n THEN Len(s) - n ELSE 0) |-> s[n + k]]

\* C12: the plan of a Gather descriptor is the points from position
\* (needs_warmup ? 0 : warmup_count) on, in the order given; it is empty when
\* that position is at or past the number of points.
C12_GatherSuffix ==
  (InUnit /\ args.sampling = "Gather") =>
    LET pos == IF hist.entry_warmup THEN 0 ELSE args.warmup_count
    IN /\ valid_frames = DropFirst(args.gather_points, pos)
       /\ pos >= Len(args.gather_points) => valid_frames = <<>>

C12_Witness ==
  /\ InUnit
  /\ args.sampling = "Gather"
  /\ args.gather_points = <<2, 0, 1>>
  /\ args.warmup_count = 1
  /\ ~hist.entry_warmup
  /\ valid_frames = <<0, 1>>

\* the descriptor carries a fatal condition: a tag that is none of the four
\* sampling modes, or a SequenceGather with a number of intervals other than 1
FatalDescriptor(a) ==
  \/ a.sampling \notin {"All", "Strided", "Gather", "SequenceGather"}
  \/ a.sampling = "SequenceGather" /\ a.gather_sequences_size # 1

\* C13 as stated: when a fatal condition ends evaluate, needs_warmup and
\* discontinuity are as they were when the call began, no packet has been
\* fed and no output buffer has been appended.
C13_Original ==
  pc = "failed" =>
    /\ needs_warmup_ = hist.call_warmup
    /\ discontinuity_ = hist.call_disc
    /\ ~hist.fed_call
    /\ output = <<>>

\* C13: a unit whose descriptor carries a fatal condition ends evaluate
\* before anything of that unit is done: the decode loop is never entered
\* for it, needs_warmup and discontinuity are as they were when the unit
\* began, the unit has fed no packet and appended no output buffer.  When
\* the unit is the first of the call, that is the state in which the call
\* began.
C13_NoPartialCommit ==
  /\ InUnit => ~FatalDescriptor(args)
  /\ pc = "failed" =>
       /\ FatalDescriptor(args)
       /\ needs_warmup_ = hist.entry_warmup
       /\ discontinuity_ = hist.entry_disc
       /\ ~hist.fed_unit
       /\ Len(output) = hist.out_base
       /\ i = 0 =>
            /\ needs_warmup_ = hist.call_warmup
            /\ discontinuity_ = hist.call_disc
            /\ ~hist.fed_call
            /\ output = <<>>

C13_Witness ==
  /\ pc = "failed"
  /\ i = 1
  /\ args.sampling = "Unknown"
  /\ hist.call_warmup /\ ~needs_warmup_
  /\ hist.fed_call
  /\ Len(output) = 1

\* C14: when evaluate returns, the decoder's frame queue is empty and
\* total_frames_decoded is the number of frames the decoder emitted during
\* the call, each of them materialized or discarded.
C14_DrainedAndCounted ==
  pc = "ret" =>
    /\ dqueue = <<>>
    /\ total_frames_decoded = hist.emit_total

\* the queue part of C14 alone
QueueEmptyOnReturn == pc \in {"endunit", "unit", "ret", "idle"} => dqueue = <<>>

\* C14 for a decoder of either kind
C14_HadFrame == discard_ret = "had_frame" => C14_DrainedAndCounted
C14_MorePending == discard_ret = "more_pending" => C14_DrainedAndCounted

\* the records read so far have been read in buffer order, each once: the
\* read position is the end of the last of them, and every one of them has
\* been fed
FedInBufferOrder ==
  InUnit =>
    /\ encoded_buffer_offset = BufferBytes(packets)
    /\ hist.fed_unit <=> (Len(packets) > 0 \/ hist.flushed)
    /\ hist.flushed <=> buffer_end

\* C15: the records of the packet buffer are fed in buffer order, each at
\* most once, one per pass of the decode loop; when the buffer is used up the
\* flush packet is fed, once, after the last record.
C15_FeedOrder ==
  /\ FedInBufferOrder
  /\ ~hist.flushed_again

\* the flush packet is fed a second time only by a decode loop that is starved
FlushAgainOnlyStarved ==
  hist.flushed_again =>
    /\ InUnit
    /\ held = 0
    /\ hist.last_size = 0
    /\ pc = "loop" => Starved

\* C16 as stated: no frame copy is in flight when the leftover frames are
\* dropped, needs_warmup is cleared or evaluate returns, and no get_frame is
\* issued after a wait_until_frames_copied() of the same evaluate call.
C16_Original ==
  /\ hist.uncopied => pc \in {"loop", "drain"}
  /\ ~hist.get_after_wait

\* C16: in every unit wait_until_frames_copied() is called after the unit's
\* last get_frame and before its leftover frames are dropped, needs_warmup is
\* cleared and, for the last unit, evaluate returns: at those places every
\* frame of the unit's plan has been taken and no frame copy is in flight.
\* A get_frame that follows a wait belongs to a later unit of the call.
C16_CopyOrder ==
  /\ hist.uncopied => pc \in {"loop", "drain"}
  /\ pc \in {"discard", "endunit"} =>
       /\ hist.call_waited
       /\ valid_index = Len(valid_frames)
  /\ hist.get_after_wait => i >= 1
  /\ (pc = "ret" /\ hist.plan_total > 0) => hist.call_waited

C16_Witness ==
  /\ pc = "discard"
  /\ i = 1
  /\ hist.get_after_wait
  /\ ~hist.uncopied
  /\ Len(UnitOutput) = 1

\* the drain loop is about to inspect the decoder's next frame (line 156)
Inspecting ==
  pc = "drain" /\ more_frames /\ LoopCond(valid_index, Len(valid_frames))

\* C17: whenever the drain loop inspects the decoder's next frame, the
\* decoder has one, and current_frame is start_keyframe plus the number of
\* frames the decoder has emitted and the engine has taken or dropped in the
\* unit; the k-th output buffer of the unit holds the decoder's
\* (valid_frames[k] - start_keyframe)-th emitted frame.
C17_IndexAlignment ==
  /\ Inspecting =>
       /\ dqueue # <<>>
       /\ current_frame = args.start_keyframe + (emitted - Len(dqueue))
  /\ InUnit =>
       \A k \in 1..Len(UnitOutput) :
         UnitOutput[k][2] = valid_frames[k] - args.start_keyframe

\* C17 for a decoder of either kind
AlignedHadFrame == discard_ret = "had_frame" => C17_IndexAlignment
AlignedMorePending == discard_ret = "more_pending" => C17_IndexAlignment

\* C18 as stated: a feed that is not the first of the evaluate call is given
\* discontinuity = true exactly when the packet fed before it was empty.
C18_Original ==
  (InUnit /\ hist.nonfirst_call) => (hist.last_disc <=> hist.prev_zero)

\* C18: a feed that is not the first of its unit is given discontinuity =
\* true exactly when the packet fed before it was empty, so the discontinuity
\* a Gather or SequenceGather unit forces reaches the decoder on the unit's
\* first feed only; the first feed of every such unit carries it.
C18_PerFeedDiscontinuity ==
  /\ (InUnit /\ hist.nonfirst_unit) => (hist.last_disc <=> hist.prev_zero)
  /\ (InUnit /\ hist.fed_unit /\ ForcesDiscontinuity(args.sampling)) =>
       hist.first_disc

C18_Witness ==
  /\ InUnit
  /\ i = 1
  /\ args.sampling = "Gather"
  /\ hist.nonfirst_unit
  /\ hist.first_disc
  /\ ~hist.last_disc /\ ~hist.prev_zero

\* the decode loop is about to read a record: its length header and its
\* payload lie inside the buffer
PacketBoundsBeforeRead ==
  (/\ pc = "loop"
   /\ LoopCond(valid_index, Len(valid_frames))
   /\ encoded_buffer_offset < Len(encoded_buffer)) =>
    LET size == ReadI32(encoded_buffer, encoded_buffer_offset)
    IN /\ encoded_buffer_offset + HeaderSize <= Len(encoded_buffer)
       /\ size >= 0
       /\ encoded_buffer_offset + HeaderSize + size <= Len(encoded_buffer)

\* C19: for a packet buffer that is a concatenation of records,
\* encoded_buffer_offset never exceeds the size of the buffer, the header and
\* the payload of every record read lie inside the buffer, and the records
\* read are the records of the buffer up to encoded_buffer_offset.
C19_PacketBounds ==
  /\ encoded_buffer_offset <= Len(encoded_buffer)
  /\ PacketBoundsBeforeRead
  /\ BufferOf(packets) = SubSeq(encoded_buffer, 1, encoded_buffer_offset)
  /\ (InUnit /\ hist.fed_unit /\ ~buffer_end) =>
       /\ encoded_packet_size = packets[Len(packets)]
       /\ encoded_buffer_offset - encoded_packet_size >= HeaderSize

C19_Witness ==
  /\ encoded_buffer = BufferOf(<<2, 0, 1>>)
  /\ packets = <<2, 0, 1>>
  /\ encoded_buffer_offset = Len(encoded_buffer)
  /\ buffer_end
  /\ hist.flushed

\* the plan of descriptor a in closed form, with the leading skip indices of
\* the warmup region left out
PlanSkipping(a, skip) ==
  CASE a.sampling \in {"All", "SequenceGather"} ->
         Interval(a.start + skip, a.end)
    [] a.sampling = "Strided" -> ArithSeq(a.start + skip * a.stride, a.end, a.stride)
    [] a.sampling = "Gather" -> DropFirst(a.gather_points, skip)

\* C20: in an evaluate call the first unit keeps its warmup region exactly
\* when needs_warmup was set as the call began; needs_warmup is cleared as
\* every unit ends, so every later unit leaves its warmup_count leading
\* indices out; a call without units leaves needs_warmup and discontinuity
\* as they were.
C20_MultiUnitWarmup ==
  /\ (InUnit /\ i = 0) =>
       /\ hist.entry_warmup = hist.call_warmup
       /\ valid_frames =
            PlanSkipping(args, IF hist.call_warmup THEN 0 ELSE args.warmup_count)
  /\ (InUnit /\ i >= 1) =>
       /\ ~hist.entry_warmup
       /\ valid_frames = PlanSkipping(args, args.warmup_count)
  /\ (pc \in {"unit", "ret"} /\ i >= 1) => ~needs_warmup_
  /\ (pc = "ret" /\ num_inputs = 0) =>
       /\ needs_warmup_ = hist.call_warmup
       /\ discontinuity_ = hist.call_disc

C20_Witness ==
  /\ InUnit
  /\ i = 1
  /\ hist.call_warmup
  /\ Len(output) = 1
  /\ args.sampling = "All"
  /\ args.end = 1
  /\ args.warmup_count = 1
  /\ valid_frames = <<>>

\* a call without units returns on an engine whose flags are both set
ZeroUnitReturn ==
  /\ pc = "ret"
  /\ num_inputs = 0
  /\ needs_warmup_ /\ discontinuity_

====
